---- MODULE Spec2Model ----
(***************************************************************************)
(* The Bit Machine of rust-simplicity (src/bit_machine/exec.rs).           *)
(*                                                                         *)
(* The state is the BitMachine struct (data, next_frame_start, read,       *)
(* write) together with the locals of BitMachine::exec (ip, call_stack)    *)
(* and the position of the caller: "init" (machine built by for_program,   *)
(* input may be installed), "dispatch" (at the `match ip.node`), "pop"     *)
(* (in the inner loop that pops call_stack), "complete" (main loop left),  *)
(* "done" (exec returned) and "aborted" (a panic unwound the run).         *)
(*                                                                         *)
(* Bits are 0/1, the arena `data` is indexed by bit, node indices are      *)
(* 0-based as in the source.  Types are <<"Unit">>, <<"Sum", a, b>>,       *)
(* <<"Product", a, b>>; values are <<"Unit">>, <<"SumL", v>>,              *)
(* <<"SumR", v>>, <<"Prod", a, b>>.                                        *)
(*                                                                         *)
(* Term::Jet and Term::Ext delegate to code outside the interpreter and    *)
(* are not part of the programs considered here; the `iters` counter only  *)
(* drives a progress message and is left out.                              *)
(*                                                                         *)
(* History kept beside the code's state: allocs counts the calls of        *)
(* new_frame and numbers the frames; wid and rid hold the numbers of the   *)
(* frames on the write and the read stack; life[k] counts how often frame  *)
(* k has been moved and dropped.                                           *)
(***************************************************************************)
EXTENDS Integers, Sequences, FiniteSets, TLC

VARIABLES data, next_frame_start, read, write, program, ip, call_stack,
          pc, fault, result, inp, allocs, wid, rid, life, open

vars == <<data, next_frame_start, read, write, program, ip, call_stack,
          pc, fault, result, inp, allocs, wid, rid, life, open>>

(***************************************************************************)
(* Bounds of the model                                                     *)
(***************************************************************************)
MaxDepth == 2

(* width of a commitment Merkle root, in bits: 32 bytes *)
CmrBits == 256

Max(a, b) == IF a >= b THEN a ELSE b

(***************************************************************************)
(* Types and values                                                        *)
(***************************************************************************)
TUnit == <<"Unit">>
TSum(a, b) == <<"Sum", a, b>>
TProd(a, b) == <<"Product", a, b>>
TBit == TSum(TUnit, TUnit)

VUnit == <<"Unit">>
VL(v) == <<"SumL", v>>
VR(v) == <<"SumR", v>>
VP(a, b) == <<"Prod", a, b>>

RECURSIVE TypesUpTo(_)
TypesUpTo(d) ==
    IF d = 0 THEN {TUnit}
    ELSE LET S == TypesUpTo(d - 1)
         IN  {TUnit} \cup {TSum(a, b) : a \in S, b \in S}
                     \cup {TProd(a, b) : a \in S, b \in S}

RECURSIVE bit_width(_)
bit_width(ty) ==
    CASE ty[1] = "Unit"    -> 0
      [] ty[1] = "Sum"     -> 1 + Max(bit_width(ty[2]), bit_width(ty[3]))
      [] ty[1] = "Product" -> bit_width(ty[2]) + bit_width(ty[3])

RECURSIVE ValuesOf(_)
ValuesOf(ty) ==
    CASE ty[1] = "Unit"    -> {VUnit}
      [] ty[1] = "Sum"     -> {VL(v) : v \in ValuesOf(ty[2])}
                              \cup {VR(v) : v \in ValuesOf(ty[3])}
      [] ty[1] = "Product" -> {VP(a, b) : a \in ValuesOf(ty[2]),
                                          b \in ValuesOf(ty[3])}

RECURSIVE HasType(_, _)
HasType(v, ty) ==
    CASE ty[1] = "Unit"    -> v[1] = "Unit"
      [] ty[1] = "Sum"     -> \/ v[1] = "SumL" /\ HasType(v[2], ty[2])
                              \/ v[1] = "SumR" /\ HasType(v[2], ty[3])
      [] ty[1] = "Product" -> /\ v[1] = "Prod"
                              /\ HasType(v[2], ty[2])
                              /\ HasType(v[3], ty[3])

(* Value::len: the number of bits write_value produces *)
RECURSIVE value_len(_)
value_len(v) ==
    CASE v[1] = "Unit" -> 0
      [] v[1] = "SumL" -> 1 + value_len(v[2])
      [] v[1] = "SumR" -> 1 + value_len(v[2])
      [] v[1] = "Prod" -> value_len(v[2]) + value_len(v[3])

(* Value::from_bits_and_type: the structural inverse of write_value,       *)
(* driven by the type.  Returns <<ok, value, rest>>.                       *)
RECURSIVE from_bits_and_type(_, _)
from_bits_and_type(bits, ty) ==
    CASE ty[1] = "Unit" -> <<TRUE, VUnit, bits>>
      [] ty[1] = "Sum" ->
            IF bits = <<>> THEN <<FALSE, VUnit, bits>>
            ELSE CHOOSE res \in
                   {<<r[1],
                      IF Head(bits) = 0 THEN VL(r[2]) ELSE VR(r[2]),
                      r[3]>> :
                    r \in {from_bits_and_type(Tail(bits),
                              IF Head(bits) = 0 THEN ty[2] ELSE ty[3])}} :
                   TRUE
      [] ty[1] = "Product" ->
            CHOOSE res \in
              UNION {{<<a[1] /\ b[1], VP(a[2], b[2]), b[3]>> :
                        b \in {from_bits_and_type(a[3], ty[3])}} :
                     a \in {from_bits_and_type(bits, ty[2])}} : TRUE

(***************************************************************************)
(* Frame: a window {start, len, cursor} into the arena                     *)
(***************************************************************************)
Frame_new(start, len) == [start |-> start, len |-> len, cursor |-> 0]

NoFault == "none"

Panic(x, kind) == IF x.fault # NoFault THEN x ELSE [x EXCEPT !.fault = kind]

Capacity(x) == Len(x.data)

(***************************************************************************)
(* BitMachine primitives.  Each takes and returns the machine; once a      *)
(* panic has been raised (fault # "none") nothing further happens.         *)
(* data is a sequence of bits; arena bit i is data[i + 1].                 *)
(* Where one call feeds the next inside a loop or a recursion, the machine *)
(* in between is named through a singleton set: CHOOSE r \in {f(y) :       *)
(* y \in {g(x)}} : TRUE is g, then f.                                      *)
(***************************************************************************)
(* variant: the allocation forgets to advance the allocation pointer *)
new_frame_noAdvance(x, len) ==
    IF x.fault # NoFault THEN x
    ELSE [x EXCEPT !.write = Append(@, Frame_new(x.next_frame_start, len)),
                   !.allocs = @ + 1,
                   !.wid = Append(@, x.allocs + 1),
                   !.life = Append(@, [moved |-> 0, dropped |-> 0])]

new_frame(x, len) ==
    IF x.fault # NoFault THEN x
    ELSE [x EXCEPT !.write = Append(@, Frame_new(x.next_frame_start, len)),
                   !.next_frame_start = @ + len,
                   !.allocs = @ + 1,
                   !.wid = Append(@, x.allocs + 1),
                   !.life = Append(@, [moved |-> 0, dropped |-> 0])]

move_frame(x) ==
    IF x.fault # NoFault THEN x
    ELSE IF x.write = <<>> THEN Panic(x, "StackUnderflow")
    ELSE LET f == x.write[Len(x.write)]
             k == x.wid[Len(x.wid)]
         IN  [x EXCEPT !.write = SubSeq(@, 1, Len(@) - 1),
                       !.read = Append(@, [f EXCEPT !.cursor = 0]),
                       !.wid = SubSeq(@, 1, Len(@) - 1),
                       !.rid = Append(@, k),
                       !.life[k].moved = @ + 1]

drop_frame(x) ==
    IF x.fault # NoFault THEN x
    ELSE IF x.read = <<>> THEN Panic(x, "StackUnderflow")
    ELSE LET f == x.read[Len(x.read)]
             k == x.rid[Len(x.rid)]
             y == [x EXCEPT !.read = SubSeq(@, 1, Len(@) - 1),
                            !.rid = SubSeq(@, 1, Len(@) - 1),
                            !.life[k].dropped = @ + 1]
         IN  IF x.next_frame_start < f.len THEN Panic(y, "ArithOverflow")
             ELSE LET z == [y EXCEPT !.next_frame_start = @ - f.len]
                  IN  IF z.next_frame_start # f.start
                      THEN Panic(z, "FrameAccounting")
                      ELSE z

(* Frame::write_bit on the active write frame *)
frame_write_bit(x, bit) ==
    LET w == Len(x.write)
        f == x.write[w]
        pos == f.start + f.cursor
    IN  IF f.cursor >= f.len THEN Panic(x, "CursorBounds")
        ELSE IF pos >= Capacity(x) THEN Panic(x, "ArenaBounds")
        ELSE [x EXCEPT !.data[pos + 1] = bit,
                       !.write[w].cursor = @ + 1]

write_bit(x, bit) ==
    IF x.fault # NoFault THEN x
    ELSE IF x.write = <<>> THEN Panic(x, "StackUnderflow")
    ELSE frame_write_bit(x, bit)

skip(x, n) ==
    IF x.fault # NoFault THEN x
    ELSE IF x.write = <<>> THEN Panic(x, "StackUnderflow")
    ELSE LET w == Len(x.write)
         IN  IF x.write[w].cursor + n > x.write[w].len
             THEN Panic(x, "CursorBounds")
             ELSE [x EXCEPT !.write[w].cursor = @ + n]

(* Frame::copy_from: n bits from `other`'s cursor to self's cursor, bit by *)
(* bit.  `other` is borrowed immutably: only the write cursor advances.    *)
RECURSIVE copy_bits(_, _, _)
copy_bits(x, from, n) ==
    IF n = 0 \/ x.fault # NoFault THEN x
    ELSE IF from >= Capacity(x) THEN Panic(x, "ArenaBounds")
    ELSE CHOOSE r \in {copy_bits(y, from + 1, n - 1) :
                          y \in {frame_write_bit(x, x.data[from + 1])}} : TRUE

(* variant: the copy also moves the cursor of the frame it reads *)
copy_advancesRead(x, n) ==
    IF x.fault # NoFault THEN x
    ELSE IF x.write = <<>> \/ x.read = <<>> THEN Panic(x, "StackUnderflow")
    ELSE LET wf == x.write[Len(x.write)]
             rf == x.read[Len(x.read)]
         IN  IF wf.cursor + n > wf.len \/ rf.cursor + n > rf.len
             THEN Panic(x, "CursorBounds")
             ELSE [copy_bits(x, rf.start + rf.cursor, n)
                      EXCEPT !.read[Len(x.read)].cursor = @ + n]

copy(x, n) ==
    IF x.fault # NoFault THEN x
    ELSE IF x.write = <<>> \/ x.read = <<>> THEN Panic(x, "StackUnderflow")
    ELSE LET wf == x.write[Len(x.write)]
             rf == x.read[Len(x.read)]
         IN  IF wf.cursor + n > wf.len \/ rf.cursor + n > rf.len
             THEN Panic(x, "CursorBounds")
             ELSE copy_bits(x, rf.start + rf.cursor, n)

fwd(x, n) ==
    IF x.fault # NoFault THEN x
    ELSE IF x.read = <<>> THEN Panic(x, "StackUnderflow")
    ELSE LET r == Len(x.read)
         IN  IF x.read[r].cursor + n > x.read[r].len
             THEN Panic(x, "CursorBounds")
             ELSE [x EXCEPT !.read[r].cursor = @ + n]

back(x, n) ==
    IF x.fault # NoFault THEN x
    ELSE IF x.read = <<>> THEN Panic(x, "StackUnderflow")
    ELSE LET r == Len(x.read)
         IN  IF x.read[r].cursor < n
             THEN Panic(x, "CursorBounds")
             ELSE [x EXCEPT !.read[r].cursor = @ - n]

(* Frame::write_u8 on the active write frame: the eight bits of a        *)
(* big-endian byte, most significant first, as many as the frame takes     *)
frame_write_u8(x, value) ==
    LET w == Len(x.write)
        f == x.write[w]
        pos == f.start + f.cursor
        room == IF f.len - f.cursor < Capacity(x) - pos
                THEN f.len - f.cursor ELSE Capacity(x) - pos
        k == IF room >= 8 THEN 8 ELSE IF room < 0 THEN 0 ELSE room
        y == [x EXCEPT !.data = [i \in DOMAIN x.data |->
                                   IF i > pos /\ i <= pos + k
                                   THEN (value \div (2 ^ (8 - (i - pos)))) % 2
                                   ELSE x.data[i]],
                       !.write[w].cursor = @ + k]
    IN  IF k = 8 THEN y
        ELSE IF f.cursor + k >= f.len THEN Panic(y, "CursorBounds")
        ELSE Panic(y, "ArenaBounds")

write_u8(x, value) ==
    IF x.fault # NoFault THEN x
    ELSE IF x.write = <<>> THEN Panic(x, "StackUnderflow")
    ELSE frame_write_u8(x, value)

RECURSIVE write_bytes(_, _)
write_bytes(x, bytes) ==
    IF bytes = <<>> THEN x
    ELSE CHOOSE r \in {write_bytes(y, Tail(bytes)) :
                          y \in {write_u8(x, Head(bytes))}} : TRUE

RECURSIVE write_value(_, _)
write_value(x, val) ==
    CASE val[1] = "Unit" -> x
      [] val[1] = "SumL" ->
            CHOOSE r \in {write_value(y, val[2]) :
                             y \in {write_bit(x, 0)}} : TRUE
      [] val[1] = "SumR" ->
            CHOOSE r \in {write_value(y, val[2]) :
                             y \in {write_bit(x, 1)}} : TRUE
      [] val[1] = "Prod" ->
            CHOOSE r \in {write_value(y, val[3]) :
                             y \in {write_value(x, val[2])}} : TRUE

input(x, v) == move_frame(write_value(new_frame(x, value_len(v)), v))

(***************************************************************************)
(* Programs: a sequence of nodes, children referenced by backward offsets  *)
(* (child index = ip.index - offset), the root is the last node.           *)
(***************************************************************************)
Nd(kind, s, t, val, src, tgt) ==
    [node |-> kind, s |-> s, t |-> t, value |-> val,
     source_ty |-> src, target_ty |-> tgt]

(* the commitment Merkle root carried by node `index`: 32 bytes *)
Cmr(index) == [i \in 1..(CmrBits \div 8) |-> (37 * index + 11 * i) % 256]

(* precomputed bound on the bits of the intermediate frames *)
RECURSIVE ExtraCells(_, _)
ExtraCells(nodes, i) ==
    IF i = 0 THEN 0
    ELSE LET n == nodes[i]
         IN  ExtraCells(nodes, i - 1) +
             CASE n.node = "Comp" -> bit_width(nodes[i - n.s].target_ty)
               [] n.node = "Disconnect" ->
                     bit_width(nodes[i - n.s].source_ty)
                     + bit_width(nodes[i - n.s].target_ty)
               [] OTHER -> 0

MkProgram(nodes) ==
    [nodes |-> [i \in 1..Len(nodes) |->
                  [node |-> nodes[i].node, s |-> nodes[i].s, t |-> nodes[i].t,
                   value |-> nodes[i].value,
                   source_ty |-> nodes[i].source_ty,
                   target_ty |-> nodes[i].target_ty,
                   index |-> i - 1]],
     extra_cells_bound |-> ExtraCells(nodes, Len(nodes))]

NodeAt(p, index) == p.nodes[index + 1]
root_node(p) == p.nodes[Len(p.nodes)]

(* the program whose root is node `index` of p *)
SubProgram(p, index) ==
    [nodes |-> SubSeq(p.nodes, 1, index + 1),
     extra_cells_bound |-> ExtraCells(p.nodes, index + 1)]

Src(P) == P[Len(P)].source_ty
Tgt(P) == P[Len(P)].target_ty

PUnit(A) == <<Nd("Unit", 0, 0, VUnit, A, TUnit)>>
PIden(A) == <<Nd("Iden", 0, 0, VUnit, A, A)>>
PWitness(A, B, v) == <<Nd("Witness", 0, 0, v, A, B)>>
PHidden(A, B) == <<Nd("Hidden", 0, 0, VUnit, A, B)>>
PFail(A, B) == <<Nd("Fail", 0, 0, VUnit, A, B)>>
PInjL(P, B) == P \o <<Nd("InjL", 0, 1, VUnit, Src(P), TSum(Tgt(P), B))>>
PInjR(P, A) == P \o <<Nd("InjR", 0, 1, VUnit, Src(P), TSum(A, Tgt(P)))>>
PTake(P, B) == P \o <<Nd("Take", 0, 1, VUnit, TProd(Src(P), B), Tgt(P))>>
PDrop(P, A) == P \o <<Nd("Drop", 0, 1, VUnit, TProd(A, Src(P)), Tgt(P))>>
PPair(P, Q) ==
    P \o Q \o <<Nd("Pair", Len(Q) + 1, 1, VUnit, Src(P),
                   TProd(Tgt(P), Tgt(Q)))>>
PComp(P, Q) ==
    P \o Q \o <<Nd("Comp", Len(Q) + 1, 1, VUnit, Src(P), Tgt(Q))>>
PCase(P, Q) ==
    P \o Q \o <<Nd("Case", Len(Q) + 1, 1, VUnit,
                   TProd(TSum(Src(P)[2], Src(Q)[2]), Src(P)[3]), Tgt(P))>>
PDisconnect(P, Q) ==
    P \o Q \o <<Nd("Disconnect", Len(Q) + 1, 1, VUnit,
                   Src(P)[3], TProd(Tgt(P)[2], Tgt(Q)))>>

(* 2^(2^k) bits as a balanced product of bits *)
RECURSIVE TWord(_)
TWord(k) == IF k = 0 THEN TBit ELSE TProd(TWord(k - 1), TWord(k - 1))

(* typing rules of the combinators *)
NodeTyped(nodes, i) ==
    LET n == nodes[i]
        A == n.source_ty
        B == n.target_ty
        okS == n.s >= 1 /\ n.s < i
        okT == n.t >= 1 /\ n.t < i
        cs == nodes[i - n.s]
        ct == nodes[i - n.t]
    IN  CASE n.node = "Unit" -> B = TUnit
          [] n.node = "Iden" -> A = B
          [] n.node = "InjL" ->
                okT /\ B[1] = "Sum" /\ ct.source_ty = A /\ ct.target_ty = B[2]
          [] n.node = "InjR" ->
                okT /\ B[1] = "Sum" /\ ct.source_ty = A /\ ct.target_ty = B[3]
          [] n.node = "Pair" ->
                okS /\ okT /\ cs.source_ty = A /\ ct.source_ty = A
                /\ B = TProd(cs.target_ty, ct.target_ty)
          [] n.node = "Comp" ->
                okS /\ okT /\ cs.source_ty = A
                /\ cs.target_ty = ct.source_ty /\ ct.target_ty = B
          [] n.node = "Disconnect" ->
                okS /\ okT /\ cs.source_ty[1] = "Product"
                /\ bit_width(cs.source_ty[2]) = CmrBits
                /\ cs.source_ty[3] = A
                /\ cs.target_ty[1] = "Product"
                /\ cs.target_ty[3] = ct.source_ty
                /\ B = TProd(cs.target_ty[2], ct.target_ty)
          [] n.node = "Take" ->
                okT /\ A[1] = "Product" /\ ct.source_ty = A[2]
                /\ ct.target_ty = B
          [] n.node = "Drop" ->
                okT /\ A[1] = "Product" /\ ct.source_ty = A[3]
                /\ ct.target_ty = B
          [] n.node = "Case" ->
                okS /\ okT /\ A[1] = "Product" /\ A[2][1] = "Sum"
                /\ cs.source_ty = TProd(A[2][2], A[3])
                /\ ct.source_ty = TProd(A[2][3], A[3])
                /\ cs.target_ty = B /\ ct.target_ty = B
          [] n.node = "Witness" -> HasType(n.value, B)
          [] n.node = "Hidden" -> TRUE
          [] n.node = "Fail" -> TRUE

WellTyped(p) == \A i \in 1..Len(p.nodes) : NodeTyped(p.nodes, i)

(***************************************************************************)
(* BitMachine::for_program and BitMachine::exec                            *)
(***************************************************************************)
NoValue == <<"NoValue">>

Zeros(n) == [i \in 1..n |-> 0]

for_program(p) ==
    LET prog == root_node(p)
        io_width == bit_width(prog.source_ty) + bit_width(prog.target_ty)
    IN  [data |-> Zeros(8 * ((io_width + p.extra_cells_bound + 7) \div 8)),
         next_frame_start |-> 0,
         read |-> <<>>,
         write |-> <<>>,
         program |-> p,
         ip |-> 0,
         call_stack |-> <<>>,
         pc |-> "init",
         fault |-> NoFault,
         result |-> NoValue,
         allocs |-> 0,
         wid |-> <<>>,
         rid |-> <<>>,
         life |-> <<>>]

CurNode(x) == NodeAt(x.program, x.ip)

Goto(n) == <<"Goto", n>>
MoveFrame == <<"MoveFrame">>
DropFrame == <<"DropFrame">>
CopyFwd(n) == <<"CopyFwd", n>>
Back(n) == <<"Back", n>>

Push(x, item) ==
    IF x.fault # NoFault THEN x
    ELSE [x EXCEPT !.call_stack = Append(@, item)]

(* where control goes after a piece of exec: a panic unwinds the run *)
Then(x, next) ==
    IF x.fault # NoFault THEN [x EXCEPT !.pc = "aborted"]
    ELSE [x EXCEPT !.pc = next]

(* variant: the output frame is allocated whatever its width *)
Setup_alwaysAllocates(x) ==
    LET y == [x EXCEPT !.ip = root_node(x.program).index,
                       !.call_stack = <<>>]
        input_width == bit_width(CurNode(y).source_ty)
        output_width == bit_width(CurNode(y).target_ty)
    IN  IF input_width > 0 /\ y.read = <<>>
        THEN Panic(y, "MissingInput")
        ELSE new_frame(y, output_width)

(* variant: the output frame is allocated before the input is looked for *)
Setup_allocatesFirst(x) ==
    LET y == [x EXCEPT !.ip = root_node(x.program).index,
                       !.call_stack = <<>>]
        input_width == bit_width(CurNode(y).source_ty)
        output_width == bit_width(CurNode(y).target_ty)
        z == IF output_width > 0 THEN new_frame(y, output_width) ELSE y
    IN  IF input_width > 0 /\ z.read = <<>>
        THEN Panic(z, "MissingInput")
        ELSE z

(* exec, up to the main loop *)
Setup(x) ==
    LET y == [x EXCEPT !.ip = root_node(x.program).index,
                       !.call_stack = <<>>]
        input_width == bit_width(CurNode(y).source_ty)
        output_width == bit_width(CurNode(y).target_ty)
    IN  IF input_width > 0 /\ y.read = <<>>
        THEN Panic(y, "MissingInput")
        ELSE IF output_width > 0 THEN new_frame(y, output_width) ELSE y

DispatchUnit(x) == x

DispatchIden(x) == copy(x, bit_width(CurNode(x).source_ty))

(* variant: the padding after the discriminant is not skipped *)
DispatchInjL_noPadding(x) ==
    LET n == CurNode(x)
        y == write_bit(x, 0)
    IN  IF n.target_ty[1] = "Sum"
        THEN Push(y, Goto(n.index - n.t))
        ELSE Panic(y, "TypeFault")

DispatchInjL(x) ==
    LET n == CurNode(x)
        y == write_bit(x, 0)
    IN  IF n.target_ty[1] = "Sum"
        THEN LET aw == bit_width(n.target_ty[2])
             IN  Push(skip(y, bit_width(n.target_ty) - aw - 1),
                      Goto(n.index - n.t))
        ELSE Panic(y, "TypeFault")

DispatchInjR(x) ==
    LET n == CurNode(x)
        y == write_bit(x, 1)
    IN  IF n.target_ty[1] = "Sum"
        THEN LET bw == bit_width(n.target_ty[3])
             IN  Push(skip(y, bit_width(n.target_ty) - bw - 1),
                      Goto(n.index - n.t))
        ELSE Panic(y, "TypeFault")

DispatchPair(x) ==
    LET n == CurNode(x)
    IN  Push(Push(x, Goto(n.index - n.t)), Goto(n.index - n.s))

(* variant: the frame of the composition is never released *)
DispatchComp_keepsFrame(x) ==
    LET n == CurNode(x)
        size == bit_width(NodeAt(x.program, n.index - n.s).target_ty)
    IN  Push(Push(Push(new_frame(x, size),
            Goto(n.index - n.t)),
            MoveFrame),
            Goto(n.index - n.s))

(* variant: the frame is committed to the read stack before l has run *)
DispatchComp_movesFirst(x) ==
    LET n == CurNode(x)
        size == bit_width(NodeAt(x.program, n.index - n.s).target_ty)
    IN  Push(Push(Push(Push(new_frame(x, size),
            DropFrame),
            Goto(n.index - n.t)),
            Goto(n.index - n.s)),
            MoveFrame)

DispatchComp(x) ==
    LET n == CurNode(x)
        size == bit_width(NodeAt(x.program, n.index - n.s).target_ty)
    IN  Push(Push(Push(Push(new_frame(x, size),
            DropFrame),
            Goto(n.index - n.t)),
            MoveFrame),
            Goto(n.index - n.s))

(* variant: the frame for l starts with the commitment of l, not of r *)
DispatchDisconnect_cmrOfS(x) ==
    LET n == CurNode(x)
        sn == NodeAt(x.program, n.index - n.s)
        tn == NodeAt(x.program, n.index - n.t)
        size == bit_width(sn.source_ty)
        s_target_size == bit_width(sn.target_ty)
        b_size == s_target_size - bit_width(tn.source_ty)
    IN  IF size < CmrBits THEN Panic(x, "SizeCheck")
        ELSE
        CHOOSE r \in
          {LET y5 == new_frame(y4, s_target_size)
               y6 == Push(Push(Push(y5, DropFrame), DropFrame),
                          Goto(n.index - n.t))
           IN  IF b_size < 0 THEN Panic(y6, "ArithOverflow")
               ELSE Push(Push(Push(y6,
                       CopyFwd(b_size)),
                       MoveFrame),
                       Goto(n.index - n.s)) :
           y4 \in {move_frame(copy(y2, size - CmrBits)) :
                      y2 \in {write_bytes(y1, Cmr(sn.index)) :
                                 y1 \in {new_frame(x, size)}}}} : TRUE

(* `s_target_size - source width of t` is an unsigned subtraction: on a    *)
(* program where it would be negative the checked build panics.  The calls *)
(* are made in the order y1, y2, y4 (innermost first), then y5 and y6.     *)
DispatchDisconnect(x) ==
    LET n == CurNode(x)
        sn == NodeAt(x.program, n.index - n.s)
        tn == NodeAt(x.program, n.index - n.t)
        size == bit_width(sn.source_ty)
        s_target_size == bit_width(sn.target_ty)
        b_size == s_target_size - bit_width(tn.source_ty)
    IN  IF size < CmrBits THEN Panic(x, "SizeCheck")
        ELSE
        CHOOSE r \in
          {LET y5 == new_frame(y4, s_target_size)
               y6 == Push(Push(Push(y5, DropFrame), DropFrame),
                          Goto(n.index - n.t))
           IN  IF b_size < 0 THEN Panic(y6, "ArithOverflow")
               ELSE Push(Push(Push(y6,
                       CopyFwd(b_size)),
                       MoveFrame),
                       Goto(n.index - n.s)) :
           y4 \in {move_frame(copy(y2, size - CmrBits)) :
                      y2 \in {write_bytes(y1, Cmr(tn.index)) :
                                 y1 \in {new_frame(x, size)}}}} : TRUE

DispatchTake(x) == Push(x, Goto(CurNode(x).index - CurNode(x).t))

(* variant: the shape of the source type is not examined *)
DispatchDrop_unchecked(x) ==
    LET n == CurNode(x)
        aw == IF n.source_ty[1] = "Product" THEN bit_width(n.source_ty[2])
              ELSE 0
    IN  Push(Push(fwd(x, aw), Back(aw)), Goto(n.index - n.t))

(* variant: the cursor is moved past the first component for good *)
DispatchDrop_noBack(x) ==
    LET n == CurNode(x)
    IN  IF n.source_ty[1] = "Product"
        THEN LET aw == bit_width(n.source_ty[2])
             IN  Push(fwd(x, aw), Goto(n.index - n.t))
        ELSE Panic(x, "TypeFault")

DispatchDrop(x) ==
    LET n == CurNode(x)
    IN  IF n.source_ty[1] = "Product"
        THEN LET aw == bit_width(n.source_ty[2])
             IN  Push(Push(fwd(x, aw), Back(aw)), Goto(n.index - n.t))
        ELSE Panic(x, "TypeFault")

(* Frame::peek_bit of the active read frame: <<machine, bit>> *)
peek_bit(x) ==
    IF x.read = <<>> THEN <<Panic(x, "StackUnderflow"), 0>>
    ELSE LET f == x.read[Len(x.read)]
             pos == f.start + f.cursor
         IN  IF f.cursor >= f.len THEN <<Panic(x, "CursorBounds"), 0>>
             ELSE IF pos >= Capacity(x) THEN <<Panic(x, "ArenaBounds"), 0>>
             ELSE <<x, x.data[pos + 1]>>

(* variant: the left arm is skipped by the padding of the right arm *)
DispatchCase_swappedWidths(x) ==
    LET n == CurNode(x)
        pk == peek_bit(x)
        y == pk[1]
        sw == pk[2]
    IN  IF n.source_ty[1] = "Product" /\ n.source_ty[2][1] = "Sum"
        THEN LET aw == bit_width(n.source_ty[2][2])
                 bw == bit_width(n.source_ty[2][3])
             IN  IF sw = 1
                 THEN Push(Push(fwd(y, 1 + Max(aw, bw) - bw),
                                Back(1 + Max(aw, bw) - bw)),
                           Goto(n.index - n.t))
                 ELSE Push(Push(fwd(y, 1 + Max(aw, bw) - bw),
                                Back(1 + Max(aw, bw) - bw)),
                           Goto(n.index - n.s))
        ELSE Panic(y, "TypeFault")

DispatchCase(x) ==
    LET n == CurNode(x)
        pk == peek_bit(x)
        y == pk[1]
        sw == pk[2]
    IN  IF n.source_ty[1] = "Product" /\ n.source_ty[2][1] = "Sum"
        THEN LET aw == bit_width(n.source_ty[2][2])
                 bw == bit_width(n.source_ty[2][3])
             IN  IF sw = 1
                 THEN Push(Push(fwd(y, 1 + Max(aw, bw) - bw),
                                Back(1 + Max(aw, bw) - bw)),
                           Goto(n.index - n.t))
                 ELSE Push(Push(fwd(y, 1 + Max(aw, bw) - aw),
                                Back(1 + Max(aw, bw) - aw)),
                           Goto(n.index - n.s))
        ELSE Panic(y, "TypeFault")

DispatchWitness(x) == write_value(x, CurNode(x).value)

(* variant: a hidden node is passed over *)
DispatchHidden_passes(x) == x

DispatchHidden(x) == Panic(x, "Unreachable")

DispatchFail(x) == Panic(x, "Unreachable")

Dispatch(x) ==
    LET k == CurNode(x).node
    IN  CASE k = "Unit" -> DispatchUnit(x)
          [] k = "Iden" -> DispatchIden(x)
          [] k = "InjL" -> DispatchInjL(x)
          [] k = "InjR" -> DispatchInjR(x)
          [] k = "Pair" -> DispatchPair(x)
          [] k = "Comp" -> DispatchComp(x)
          [] k = "Disconnect" -> DispatchDisconnect(x)
          [] k = "Take" -> DispatchTake(x)
          [] k = "Drop" -> DispatchDrop(x)
          [] k = "Case" -> DispatchCase(x)
          [] k = "Witness" -> DispatchWitness(x)
          [] k = "Hidden" -> DispatchHidden(x)
          [] k = "Fail" -> DispatchFail(x)

(* one turn of the inner loop: pop the call stack and act on the entry *)
Top(x) == x.call_stack[Len(x.call_stack)]

Popped(x) == [x EXCEPT !.call_stack = SubSeq(@, 1, Len(@) - 1)]

PopGoto(x) == Then([Popped(x) EXCEPT !.ip = Top(x)[2]], "dispatch")
PopMoveFrame(x) == Then(move_frame(Popped(x)), "pop")
(* variant: the DropFrame continuation is popped without dropping *)
PopDropFrame_skips(x) == Then(Popped(x), "pop")

PopDropFrame(x) == Then(drop_frame(Popped(x)), "pop")
PopCopyFwd(x) == Then(fwd(copy(Popped(x), Top(x)[2]), Top(x)[2]), "pop")
PopBack(x) == Then(back(Popped(x), Top(x)[2]), "pop")
(* variant: an empty continuation stack does not leave the main loop *)
PopNone_continues(x) == Then(x, "pop")

PopNone(x) == Then(x, "complete")

Pop(x) ==
    IF x.call_stack = <<>> THEN PopNone(x)
    ELSE CASE Top(x)[1] = "Goto" -> PopGoto(x)
           [] Top(x)[1] = "MoveFrame" -> PopMoveFrame(x)
           [] Top(x)[1] = "DropFrame" -> PopDropFrame(x)
           [] Top(x)[1] = "CopyFwd" -> PopCopyFwd(x)
           [] Top(x)[1] = "Back" -> PopBack(x)

(* Frame::to_frame_data: the bits of the frame *)
to_frame_data(f, d) == [i \in 1..f.len |-> d[f.start + i]]

(* exec, after the main loop *)
Complete(x) ==
    LET ty == root_node(x.program).target_ty
        output_width == bit_width(ty)
    IN  IF output_width > 0
        THEN IF x.write = <<>> THEN Panic(x, "StackUnderflow")
             ELSE LET w == Len(x.write)
                      y == [x EXCEPT !.write[w].cursor = 0]
                      f == y.write[w]
                  IN  IF f.start + f.len > Capacity(y)
                      THEN Panic(y, "ArenaBounds")
                      ELSE LET r == from_bits_and_type(
                                        to_frame_data(f, y.data), ty)
                           IN  IF r[1] THEN [y EXCEPT !.result = r[2]]
                               ELSE Panic(y, "Decode")
        ELSE [x EXCEPT !.result = VUnit]

Step(x) ==
    CASE x.pc = "init" -> Then(Setup(x), "dispatch")
      [] x.pc = "dispatch" -> Then(Dispatch(x), "pop")
      [] x.pc = "pop" -> Pop(x)
      [] x.pc = "complete" -> Then(Complete(x), "done")

RECURSIVE Run(_)
Run(x) == IF x.pc \in {"done", "aborted"} THEN x ELSE Run(Step(x))

(* what the caller observes of a finished run *)
Outcome(x) ==
    IF x.pc = "done" THEN <<"value", x.result>> ELSE <<"panic">>

(* input(v) on a fresh machine for p, then exec *)
Eval(p, v) == Outcome(Run(Then(input(for_program(p), v), "init")))

(***************************************************************************)
(* The programs and inputs the machine is run on                           *)
(***************************************************************************)
ArmTypes == {TUnit, TBit}

W256 == TWord(8)

IdenProgs == {PIden(T) : T \in TypesUpTo(MaxDepth)}

UnitProgs == {PUnit(T) : T \in ArmTypes}

WitnessProgs ==
    UNION {{PWitness(TUnit, T, v) : v \in ValuesOf(T)} :
              T \in {TBit, TSum(TUnit, TBit), TProd(TSum(TUnit, TBit), TBit)}}

InjChildren ==
    {PUnit(TUnit), PUnit(TBit), PIden(TBit)}
    \cup {PWitness(TUnit, TBit, v) : v \in ValuesOf(TBit)}

InjProgs ==
    UNION {{PInjL(P, B), PInjR(P, B)} :
              P \in InjChildren, B \in ArmTypes \cup {TProd(TBit, TBit)}}

(* branches A x C -> D of a case *)
Branch(A, C) ==
    {PDrop(PIden(C), A), PTake(PIden(A), C), PUnit(TProd(A, C)),
     PIden(TProd(A, C)), PPair(PDrop(PIden(C), A), PTake(PIden(A), C))}

CaseProgs ==
    UNION {{PCase(PQ[1], PQ[2]) :
               PQ \in {X \in Branch(A, C) \X Branch(B, C) :
                          Tgt(X[1]) = Tgt(X[2])}} :
              <<A, B, C>> \in ArmTypes \X ArmTypes \X ArmTypes}

AssertionProgs ==
    {PCase(PDrop(PIden(TBit), TBit), PHidden(TProd(TUnit, TBit), TBit)),
     PCase(PHidden(TProd(TBit, TBit), TBit), PDrop(PIden(TBit), TUnit))}

(* programs X -> (A + B) x C built from injections and literals *)
SumPairs(X) ==
    UNION {{PPair(PInjL(PWitness(X, A, a), B), PWitness(X, C, c)) :
               a \in ValuesOf(A), c \in ValuesOf(C)}
           \cup {PPair(PInjR(PWitness(X, B, b), A), PWitness(X, C, c)) :
               b \in ValuesOf(B), c \in ValuesOf(C)} :
              <<A, B, C>> \in ArmTypes \X ArmTypes \X ArmTypes}

Firsts ==
    SumPairs(TUnit) \cup InjProgs
    \cup {PIden(TProd(TSum(A, B), C)) :
             <<A, B, C>> \in ArmTypes \X ArmTypes \X ArmTypes}
    \cup {PIden(TBit), PUnit(TBit), PPair(PIden(TBit), PIden(TBit))}

Seconds ==
    CaseProgs
    \cup {PIden(T) : T \in {TUnit, TBit, TSum(TUnit, TBit), TSum(TBit, TUnit),
                            TProd(TBit, TBit)}}
    \cup {PUnit(TBit), PDrop(PIden(TBit), TBit), PTake(PIden(TBit), TBit),
          PInjL(PIden(TBit), TUnit)}

CompProgs ==
    {PComp(PQ[1], PQ[2]) :
        PQ \in {X \in Firsts \X Seconds : Tgt(X[1]) = Src(X[2])}}

NestedProgs ==
    {PComp(PComp(PIden(TBit), PInjR(PIden(TBit), TUnit)),
           PIden(TSum(TUnit, TBit))),
     PComp(PIden(TBit), PComp(PPair(PIden(TBit), PUnit(TBit)),
                              PTake(PIden(TBit), TUnit))),
     PPair(PComp(PIden(TBit), PIden(TBit)), PComp(PUnit(TBit), PUnit(TUnit))),
     PComp(PIden(TBit), PHidden(TBit, TBit)),
     PPair(PFail(TBit, TBit), PIden(TBit)),
     PHidden(TUnit, TUnit), PFail(TBit, TBit), PFail(TUnit, TUnit)}

DisconnectProgs ==
    {PDisconnect(PPair(PDrop(PIden(TBit), W256), PDrop(PIden(TBit), W256)),
                 PIden(TBit)),
     PDisconnect(PPair(PDrop(PIden(TBit), W256), PDrop(PUnit(TBit), W256)),
                 PUnit(TUnit)),
     PDisconnect(PPair(PUnit(TProd(W256, TUnit)), PUnit(TProd(W256, TUnit))),
                 PUnit(TUnit))}

(* programs whose annotations break the typing rules *)
IllTypedProgs ==
    {PUnit(T) \o <<Nd("Drop", 0, 1, VUnit, T, TUnit)>> :
        T \in {TUnit, TBit}}
    \cup {PUnit(TUnit) \o <<Nd(k, 0, 1, VUnit, TUnit, T)>> :
        k \in {"InjL", "InjR"}, T \in {TUnit, TProd(TBit, TUnit)}}
    \cup {PUnit(T) \o PUnit(T) \o <<Nd("Case", 2, 1, VUnit, T, TUnit)>> :
        T \in {TUnit, TBit, TProd(TUnit, TBit),
               TProd(TProd(TBit, TUnit), TUnit)}}

(* Drop whose child moves the read cursor itself *)
DropProgs ==
    {PDrop(PDrop(PIden(TBit), TBit), TBit),
     PDrop(PDrop(PIden(TBit), TUnit), TSum(TUnit, TBit)),
     PDrop(PTake(PIden(TBit), TBit), TBit)}

(* programs that come with a bound on the intermediate frames which is    *)
(* smaller than what their Comp nodes allocate                             *)
UnderBoundProgs ==
    {[MkProgram(P) EXCEPT !.extra_cells_bound = 0] :
        P \in {PComp(PWitness(TUnit, TBit, VL(VUnit)), PUnit(TBit)),
               PComp(PInjL(PUnit(TUnit), TBit), PUnit(TSum(TUnit, TBit)))}}

Programs ==
    {MkProgram(P) :
        P \in IdenProgs \cup UnitProgs \cup WitnessProgs \cup InjProgs
              \cup CaseProgs \cup AssertionProgs \cup CompProgs
              \cup NestedProgs \cup DisconnectProgs \cup IllTypedProgs
              \cup DropProgs}
        \cup UnderBoundProgs

(***************************************************************************)
(* The state machine                                                       *)
(***************************************************************************)
Mach ==
    [data |-> data, next_frame_start |-> next_frame_start, read |-> read,
     write |-> write, program |-> program, ip |-> ip,
     call_stack |-> call_stack, pc |-> pc, fault |-> fault,
     result |-> result, allocs |-> allocs, wid |-> wid, rid |-> rid,
     life |-> life]

Become(y) ==
    \E z \in {y} :
        /\ data' = z.data
        /\ next_frame_start' = z.next_frame_start
        /\ read' = z.read
        /\ write' = z.write
        /\ program' = z.program
        /\ ip' = z.ip
        /\ call_stack' = z.call_stack
        /\ pc' = z.pc
        /\ fault' = z.fault
        /\ result' = z.result
        /\ allocs' = z.allocs
        /\ wid' = z.wid
        /\ rid' = z.rid
        /\ life' = z.life

(* history: the machine as it was when each still unfinished node was      *)
(* dispatched; depth is the height of call_stack at that moment            *)
Cursor(stack) == IF stack = <<>> THEN -1 ELSE stack[Len(stack)].cursor

Snapshot ==
    [index |-> ip, depth |-> Len(call_stack),
     nfs |-> next_frame_start, rdepth |-> Len(read), wdepth |-> Len(write),
     rcur |-> Cursor(read), wcur |-> Cursor(write),
     wabs |-> IF write = <<>> THEN -1
              ELSE write[Len(write)].start + write[Len(write)].cursor,
     data |-> data]

Unfinished == SelectSeq(open, LAMBDA e : e.depth < Len(call_stack))

Init ==
    /\ \E p \in Programs :
          LET y == for_program(p)
          IN  /\ data = y.data
              /\ next_frame_start = y.next_frame_start
              /\ read = y.read
              /\ write = y.write
              /\ program = y.program
              /\ ip = y.ip
              /\ call_stack = y.call_stack
              /\ pc = y.pc
              /\ fault = y.fault
              /\ result = y.result
              /\ allocs = y.allocs
              /\ wid = y.wid
              /\ rid = y.rid
              /\ life = y.life
    /\ inp = NoValue
    /\ open = <<>>

(* the caller installs an input value of the program's source type *)
Input ==
    /\ pc = "init"
    /\ inp = NoValue
    /\ \E v \in ValuesOf(root_node(program).source_ty) :
          /\ Become(Then(input(Mach, v), "init"))
          /\ inp' = v
    /\ UNCHANGED open

(* the caller calls exec *)
ExecSetup ==
    /\ pc = "init"
    /\ Become(Then(Setup(Mach), "dispatch"))
    /\ UNCHANGED <<inp, open>>

At(kind) == pc = "dispatch" /\ CurNode(Mach).node = kind

Does(y) ==
    /\ Become(Then(y, "pop"))
    /\ open' = Append(open, Snapshot)
    /\ UNCHANGED inp

ExecUnit == At("Unit") /\ Does(DispatchUnit(Mach))
ExecIden == At("Iden") /\ Does(DispatchIden(Mach))
ExecInjL == At("InjL") /\ Does(DispatchInjL(Mach))
ExecInjR == At("InjR") /\ Does(DispatchInjR(Mach))
ExecPair == At("Pair") /\ Does(DispatchPair(Mach))
ExecComp == At("Comp") /\ Does(DispatchComp(Mach))
ExecDisconnect == At("Disconnect") /\ Does(DispatchDisconnect(Mach))
ExecTake == At("Take") /\ Does(DispatchTake(Mach))
ExecDrop == At("Drop") /\ Does(DispatchDrop(Mach))
ExecCase == At("Case") /\ Does(DispatchCase(Mach))
ExecWitness == At("Witness") /\ Does(DispatchWitness(Mach))
ExecHidden == At("Hidden") /\ Does(DispatchHidden(Mach))
ExecFail == At("Fail") /\ Does(DispatchFail(Mach))

Popping(kind) ==
    pc = "pop" /\ call_stack # <<>> /\ Top(Mach)[1] = kind

Pops(y) ==
    /\ Become(y)
    /\ open' = Unfinished
    /\ UNCHANGED inp

ContGoto == Popping("Goto") /\ Pops(PopGoto(Mach))
ContMoveFrame == Popping("MoveFrame") /\ Pops(PopMoveFrame(Mach))
ContDropFrame == Popping("DropFrame") /\ Pops(PopDropFrame(Mach))
ContCopyFwd == Popping("CopyFwd") /\ Pops(PopCopyFwd(Mach))
ContBack == Popping("Back") /\ Pops(PopBack(Mach))

LoopExit ==
    /\ pc = "pop"
    /\ call_stack = <<>>
    /\ Become(PopNone(Mach))
    /\ open' = <<>>
    /\ UNCHANGED inp

Completion ==
    /\ pc = "complete"
    /\ Become(Then(Complete(Mach), "done"))
    /\ UNCHANGED <<inp, open>>

Next ==
    \/ ExecSetup
    \/ Input
    \/ ExecUnit
    \/ ExecIden
    \/ ExecInjL
    \/ ExecInjR
    \/ ExecPair
    \/ ExecComp
    \/ ExecDisconnect
    \/ ExecTake
    \/ ExecDrop
    \/ ExecCase
    \/ ExecWitness
    \/ ExecHidden
    \/ ExecFail
    \/ ContGoto
    \/ ContMoveFrame
    \/ ContDropFrame
    \/ ContCopyFwd
    \/ ContBack
    \/ LoopExit
    \/ Completion

Spec == Init /\ [][Next]_vars

(* exec is one sequential loop: a machine that can take a step takes it *)
FairSpec == Spec /\ WF_vars(Next)


(***************************************************************************)
(* Properties                                                              *)
(***************************************************************************)
Root == root_node(program)
Finished == pc \in {"done", "aborted"}
NodeOf(e) == NodeAt(program, e.index)
(* the node of history entry e and everything it scheduled has run *)
Completed(e) == pc = "pop" /\ e.depth = Len(call_stack)
Entries == {open[i] : i \in DOMAIN open}

(* C1: for every type T and value v of T, input(v) followed by exec of the *)
(* single node Iden : T -> T returns normally with a value equal to v.     *)
C1_IdenRoundTrip ==
    (Len(program.nodes) = 1 /\ Root.node = "Iden" /\ inp # NoValue
     /\ Finished)
        => (pc = "done" /\ result = inp)

(* C2: exec of Comp(f, g) on input a returns what exec of g returns on a   *)
(* fresh machine whose input is the value exec of f returned on input a.   *)
C2_CompIsComposition ==
    (Root.node = "Comp" /\ WellTyped(program) /\ inp # NoValue /\ Finished)
        => LET f == SubProgram(program, Root.index - Root.s)
               g == SubProgram(program, Root.index - Root.t)
               b == Eval(f, inp)
           IN  b[1] = "value" => Outcome(Mach) = Eval(g, b[2])

(* C3: exec of Case(f, g) on Pair(Left(a), c) returns what exec of f       *)
(* returns on Pair(a, c), and on Pair(Right(b), c) what exec of g returns  *)
(* on Pair(b, c), whatever the widths of the two arms.                     *)
C3_CaseIsBranch ==
    (Root.node = "Case" /\ WellTyped(program) /\ inp # NoValue /\ Finished)
        => LET f == SubProgram(program, Root.index - Root.s)
               g == SubProgram(program, Root.index - Root.t)
               arg == VP(inp[2][2], inp[3])
           IN  Outcome(Mach) = IF inp[2][1] = "SumL" THEN Eval(f, arg)
                               ELSE Eval(g, arg)

(* C4: in a well-typed program every drop_frame lands next_frame_start on  *)
(* the start of the frame it pops, and once everything a Comp or           *)
(* Disconnect node scheduled has run, next_frame_start is back at the      *)
(* value it had when the node was dispatched.                              *)
C4_FrameAccounting ==
    WellTyped(program) =>
        /\ fault \notin {"FrameAccounting", "ArithOverflow"}
        /\ \A e \in Entries :
              (Completed(e) /\ NodeOf(e).node \in {"Comp", "Disconnect"})
                  => next_frame_start = e.nfs

C4_Witness ==
    /\ WellTyped(program)
    /\ \E e \in Entries :
          /\ Completed(e)
          /\ NodeOf(e).node = "Comp"
          /\ bit_width(NodeAt(program, e.index - NodeOf(e).s).target_ty) > 0

(* C5: when the instruction pointer reaches a Hidden or Fail node the run  *)
(* aborts there: no value is returned, the output frame is not decoded and *)
(* no later node or continuation runs.                                     *)
C5_UnreachableAborts ==
    [][/\ (pc = "dispatch" /\ CurNode(Mach).node \in {"Hidden", "Fail"})
            => /\ pc' = "aborted"
               /\ fault' = "Unreachable"
               /\ result' = NoValue
               /\ call_stack' = call_stack
               /\ ip' = ip
       /\ pc # "aborted"]_vars

C5_Witness ==
    /\ pc = "aborted"
    /\ fault = "Unreachable"
    /\ CurNode(Mach).node \in {"Hidden", "Fail"}
    /\ call_stack # <<>>
    /\ result = NoValue

(* C6: a Drop node whose source type is not a Product aborts the run with  *)
(* the structural type fault, whatever the machine state (empty read stack *)
(* included), before the read cursor moves or a continuation is pushed.    *)
C6_DropTypeFault ==
    [][(pc = "dispatch" /\ CurNode(Mach).node = "Drop"
        /\ CurNode(Mach).source_ty[1] # "Product")
          => /\ pc' = "aborted"
             /\ fault' = "TypeFault"
             /\ read' = read
             /\ call_stack' = call_stack]_vars

C6_Witness ==
    /\ pc = "aborted"
    /\ fault = "TypeFault"
    /\ CurNode(Mach).node = "Drop"
    /\ read = <<>>

(* C7: the program made of one Unit node with zero-width source and target, *)
(* run with no input installed, returns Value::Unit without any call of    *)
(* new_frame: both stacks stay empty and next_frame_start stays 0.         *)
C7_UnitNoFrames ==
    (program = MkProgram(PUnit(TUnit)) /\ inp = NoValue)
        => /\ read = <<>>
           /\ write = <<>>
           /\ next_frame_start = 0
           /\ allocs = 0
           /\ pc # "aborted"
           /\ pc = "done" => result = VUnit

C7_Witness ==
    /\ program = MkProgram(PUnit(TUnit))
    /\ inp = NoValue
    /\ pc = "done"
    /\ result = VUnit

(* the padding of an injection node: target width - arm width - 1 *)
Padding(n) ==
    bit_width(n.target_ty) - 1
    - bit_width(n.target_ty[IF n.node = "InjL" THEN 2 ELSE 3])

(* C8: InjL (InjR) with target Sum(A, B) writes discriminant 0 (1) where   *)
(* the write cursor stood, leaves the max(|A|,|B|) - |A| (- |B|) padding   *)
(* bits untouched and has its child write into the last |A| (|B|) bits;    *)
(* InjL(Unit) : Unit -> Sum(Unit, Unit) yields Left(Unit) from a one-bit   *)
(* output frame holding 0.                                                 *)
C8_Injection ==
    /\ \A i \in DOMAIN open :
          LET e == open[i]
              n == NodeOf(e)
          IN  (n.node \in {"InjL", "InjR"} /\ WellTyped(program)
               /\ fault = NoFault)
                => /\ data[e.wabs + 1] = IF n.node = "InjL" THEN 0 ELSE 1
                   /\ \A j \in 1..Padding(n) :
                         data[e.wabs + 1 + j] = e.data[e.wabs + 1 + j]
                   /\ i < Len(open) =>
                         /\ open[i + 1].index = e.index - n.t
                         /\ open[i + 1].wabs = e.wabs + 1 + Padding(n)
                   /\ Completed(e) =>
                         /\ Len(write) = e.wdepth
                         /\ Cursor(write) >= e.wcur + 1 + Padding(n)
                         /\ Cursor(write) <= e.wcur + bit_width(n.target_ty)
    /\ (program = MkProgram(PInjL(PUnit(TUnit), TUnit)) /\ Finished)
          => /\ pc = "done"
             /\ result = VL(VUnit)
             /\ write = <<[start |-> next_frame_start - 1, len |-> 1,
                           cursor |-> 0]>>
             /\ data[write[1].start + 1] = 0

C8_Witness ==
    /\ WellTyped(program)
    /\ \E e \in Entries :
          /\ Completed(e)
          /\ NodeOf(e).node \in {"InjL", "InjR"}
          /\ Padding(NodeOf(e)) > 0
          /\ Cursor(write) = e.wcur + bit_width(NodeOf(e).target_ty)
          /\ Cursor(write) > e.wcur + 1 + Padding(NodeOf(e))

(* C9: exec on a program whose root source type has nonzero width, with an *)
(* empty read stack, aborts before the output frame is allocated and       *)
(* before any node is dispatched.                                          *)
C9_MissingInputAborts ==
    [][(pc = "init" /\ pc' # "init" /\ read = <<>>
        /\ bit_width(Root.source_ty) > 0)
          => /\ pc' = "aborted"
             /\ read' = read
             /\ write' = write
             /\ next_frame_start' = next_frame_start
             /\ allocs' = allocs
             /\ open' = <<>>]_vars

C9_Witness ==
    /\ pc = "aborted"
    /\ fault = "MissingInput"
    /\ bit_width(Root.target_ty) > 0
    /\ write = <<>>

(* the arm the case node at the instruction pointer takes *)
SumOf(n) == n.source_ty[2]
ArmWidth(n, bit) == bit_width(SumOf(n)[IF bit = 0 THEN 2 ELSE 3])
CasePadding(n, bit) == bit_width(SumOf(n)) - 1 - ArmWidth(n, bit)
CaseStep ==
    pc = "dispatch" /\ CurNode(Mach).node = "Case" /\ WellTyped(program)
    /\ fault' = NoFault

(* C10, as stated: at a Case node over Product(Sum(A, B), C) the read      *)
(* cursor advances by 1 plus the width of the chosen arm, and the seek     *)
(* back leaves it where C begins.                                          *)
C10_AdvancesPastArm ==
    [][CaseStep =>
          Cursor(read') = Cursor(read) + 1
                          + ArmWidth(CurNode(Mach), peek_bit(Mach)[2])]_vars

(* C10, amended: at a Case node over Product(Sum(A, B), C) the read cursor *)
(* advances by 1 plus the padding max(|A|,|B|) - |chosen arm|, the chosen  *)
(* branch is scheduled above a seek back of the same amount, and when the  *)
(* node completes the cursor is back at its value at dispatch.             *)
C10_AdvancesPastPadding ==
    /\ [][CaseStep =>
            LET n == CurNode(Mach)
                bit == peek_bit(Mach)[2]
                k == 1 + CasePadding(n, bit)
            IN  /\ Cursor(read') = Cursor(read) + k
                /\ call_stack' = call_stack
                      \o <<Back(k),
                           Goto(n.index - (IF bit = 0 THEN n.s ELSE n.t))>>]_vars
    /\ [](\A e \in Entries :
            (Completed(e) /\ NodeOf(e).node = "Case" /\ WellTyped(program))
                => /\ Len(read) = e.rdepth
                   /\ Cursor(read) = e.rcur)

C10_Witness ==
    /\ WellTyped(program)
    /\ \E e \in Entries :
          /\ Completed(e)
          /\ NodeOf(e).node = "Case"
          /\ bit_width(SumOf(NodeOf(e))[2]) # bit_width(SumOf(NodeOf(e))[3])
          /\ e.data[read[Len(read)].start + e.rcur + 1] = 0
          /\ Cursor(read) = e.rcur

(* the steps that copy: an Iden node, and a CopyFwd continuation *)
IdenStep ==
    pc = "dispatch" /\ CurNode(Mach).node = "Iden" /\ fault' = NoFault
CopyFwdStep ==
    pc = "pop" /\ call_stack # <<>> /\ Top(Mach)[1] = "CopyFwd"
    /\ fault' = NoFault

(* C11, as stated: a copy of n bits advances the cursor of the active      *)
(* write frame and the cursor of the active read frame by n each, so Iden  *)
(* moves the read cursor by the source width and CopyFwd(n) by n.          *)
C11_CopyAdvancesBoth ==
    [][/\ IdenStep =>
            /\ Cursor(write') =
                  Cursor(write) + bit_width(CurNode(Mach).source_ty)
            /\ Cursor(read') =
                  Cursor(read) + bit_width(CurNode(Mach).source_ty)
       /\ CopyFwdStep =>
            /\ Cursor(write') = Cursor(write) + Top(Mach)[2]
            /\ Cursor(read') = Cursor(read) + Top(Mach)[2]]_vars

(* C11, amended: a copy of n bits advances the cursor of the active write  *)
(* frame by n and leaves the read stack as it was: Iden does not move the  *)
(* read cursor, and CopyFwd(n) moves it by n through the fwd(n) that       *)
(* follows the copy.                                                       *)
C11_CopyAdvancesWrite ==
    [][/\ IdenStep =>
            /\ Cursor(write') =
                  Cursor(write) + bit_width(CurNode(Mach).source_ty)
            /\ read' = read
       /\ CopyFwdStep =>
            /\ Cursor(write') = Cursor(write) + Top(Mach)[2]
            /\ Cursor(read') = Cursor(read) + Top(Mach)[2]
            /\ Len(read') = Len(read)]_vars

C11_Witness ==
    /\ pc = "pop"
    /\ fault = NoFault
    /\ \E e \in Entries :
          /\ NodeOf(e).node = "Disconnect"
          /\ Len(call_stack) = e.depth + 3
          /\ Len(read) = e.rdepth + 2
          /\ Cursor(read) > 0
          /\ Cursor(write) = e.wcur + Cursor(read)

(* C12, as stated: in a well-typed program every node that has run to     *)
(* completion has advanced the write cursor by the bit width of its target *)
(* type and has left the read cursor, the depth of both stacks and         *)
(* next_frame_start as they were when it was dispatched; a Witness node    *)
(* whose literal holds a Sum with arms of unequal width is no exception.   *)
C12_NodeWritesTargetWidth ==
    (WellTyped(program) /\ fault = NoFault) =>
        \A e \in Entries :
            Completed(e) =>
                /\ Cursor(write) = e.wcur + bit_width(NodeOf(e).target_ty)
                /\ Cursor(read) = e.rcur
                /\ Len(read) = e.rdepth
                /\ Len(write) = e.wdepth
                /\ next_frame_start = e.nfs

(* The run of the node dispatched as open[i], seen from the call stack:   *)
(* Pending(i) is the number of continuation items above the ones that were *)
(* there at its dispatch, and Inner(i) is the entry of the node dispatched *)
(* directly below it that has not been discarded yet.                      *)
Pending(i) == Len(call_stack) - open[i].depth
HasInner(i) == i < Len(open)
Inner(i) == open[i + 1]
IsFrame(f, start, len) == f.start = start /\ f.len = len

(* phases of Comp(l, r) dispatched as open[i] *)
CompLeft(i) ==
    /\ Pending(i) >= 3
    /\ HasInner(i) => Inner(i).depth = open[i].depth + 3
CompRight(i) ==
    /\ Pending(i) >= 1
    /\ IF HasInner(i) THEN Inner(i).depth = open[i].depth + 1
                      ELSE Pending(i) <= 2

(* C13: Comp(l, r) allocates its intermediate frame, then l runs with the  *)
(* frame on the write stack and not on the read stack, then move_frame     *)
(* commits it, then r runs with it as the active read frame, then          *)
(* drop_frame releases it; it is not released while r has work pending.    *)
C13_CompOrder ==
    fault = NoFault =>
        \A i \in 1..Len(open) :
            LET e == open[i]
                n == NodeOf(e)
                size == bit_width(NodeAt(program, n.index - n.s).target_ty)
            IN  n.node = "Comp" =>
                  /\ CompLeft(i) \/ CompRight(i) \/ Completed(e)
                  /\ CompLeft(i) =>
                        /\ SubSeq(call_stack, e.depth + 1, e.depth + 3) =
                              <<DropFrame, Goto(n.index - n.t), MoveFrame>>
                        /\ Len(write) > e.wdepth
                        /\ IsFrame(write[e.wdepth + 1], e.nfs, size)
                        /\ Len(read) >= e.rdepth
                        /\ size > 0 =>
                              \A j \in 1..Len(read) :
                                  ~IsFrame(read[j], e.nfs, size)
                        /\ next_frame_start >= e.nfs + size
                        /\ HasInner(i) => Inner(i).index = n.index - n.s
                  /\ CompRight(i) =>
                        /\ call_stack[e.depth + 1] = DropFrame
                        /\ (Pending(i) = 2 /\ ~HasInner(i)) =>
                              call_stack[e.depth + 2] = Goto(n.index - n.t)
                        /\ Len(read) > e.rdepth
                        /\ IsFrame(read[e.rdepth + 1], e.nfs, size)
                        /\ Len(write) >= e.wdepth
                        /\ next_frame_start >= e.nfs + size
                        /\ HasInner(i) =>
                              /\ Inner(i).index = n.index - n.t
                              /\ Inner(i).rdepth = e.rdepth + 1
                              /\ Inner(i).rcur = 0
                  /\ Completed(e) =>
                        /\ Len(read) = e.rdepth
                        /\ Len(write) = e.wdepth
                        /\ next_frame_start = e.nfs

C13_Witness ==
    /\ fault = NoFault
    /\ \E i \in 1..Len(open) :
          /\ NodeOf(open[i]).node = "Comp"
          /\ CompRight(i)
          /\ HasInner(i)
          /\ Completed(Inner(i))
          /\ read[open[i].rdepth + 1].len > 0
          /\ Len(read) = open[i].rdepth + 1

(* the frames of both stacks, each with the stack and slot it sits in *)
LiveFrames ==
    {<<"read", j, read[j]>> : j \in 1..Len(read)}
        \cup {<<"write", j, write[j]>> : j \in 1..Len(write)}
Disjoint(f, g) ==
    f.start + f.len <= g.start \/ g.start + g.len <= f.start

(* C14: in every state the arena ranges [start, start + len) of the frames *)
(* on the two stacks are pairwise disjoint, and each of them ends at or    *)
(* below next_frame_start.                                                 *)
C14_FramesDisjoint ==
    /\ \A a \in LiveFrames :
          a[3].start + a[3].len <= next_frame_start
    /\ \A a, b \in LiveFrames :
          (<<a[1], a[2]>> # <<b[1], b[2]>>) => Disjoint(a[3], b[3])

C14_Witness ==
    /\ Len(read) >= 2
    /\ Len(write) >= 2
    /\ \A a \in LiveFrames : a[3].len > 0
    /\ fault = NoFault

(* every child reference of a node points to an earlier node *)
Acyclic(p) ==
    \A i \in 1..Len(p.nodes) :
        LET n == p.nodes[i]
        IN  /\ n.node \in {"InjL", "InjR", "Take", "Drop"} =>
                  (n.t >= 1 /\ n.t <= n.index)
            /\ n.node \in {"Pair", "Comp", "Case", "Disconnect"} =>
                  /\ n.s >= 1 /\ n.s <= n.index
                  /\ n.t >= 1 /\ n.t <= n.index
Stopped == pc \in {"complete", "done", "aborted"}

(* C15: on a program whose node references are acyclic, exec eventually    *)
(* stops: the continuation stack runs empty and the main loop is left, or  *)
(* the run aborts.                                                         *)
C15_Terminates == Acyclic(program) => <>Stopped

C15_Witness ==
    /\ pc = "done"
    /\ Acyclic(program)
    /\ Len(program.nodes) >= 5
    /\ allocs >= 3

(* bit j (1..CmrBits) of the commitment of node `index`, most significant *)
(* bit of each byte first                                                  *)
CmrBit(index, j) ==
    (Cmr(index)[((j - 1) \div 8) + 1] \div (2 ^ (7 - ((j - 1) % 8)))) % 2

(* phases of Disconnect(l, r) dispatched as open[i] *)
DiscLeft(i) ==
    /\ Pending(i) >= 5
    /\ HasInner(i) => Inner(i).depth = open[i].depth + 5
DiscRight(i) ==
    /\ Pending(i) >= 2
    /\ IF HasInner(i) THEN Inner(i).depth = open[i].depth + 2
                      ELSE Pending(i) <= 4
DiscDropping(i) == Pending(i) = 1

(* C16: for Disconnect(l, r) whose l has source width w >= 256, the read   *)
(* frame that is active while l runs has length w, holds the 256 bits of   *)
(* r's commitment followed by the w - 256 bits that stood at the cursor of *)
(* the outer read frame when the node was dispatched, and building it does *)
(* not move that cursor; after r has completed, the frame of l's output is *)
(* released first and the frame of l's input last.                         *)
C16_DisconnectFrames ==
    fault = NoFault =>
        \A i \in 1..Len(open) :
            LET e == open[i]
                n == NodeOf(e)
                sn == NodeAt(program, n.index - n.s)
                tn == NodeAt(program, n.index - n.t)
                w == bit_width(sn.source_ty)
                out == bit_width(sn.target_ty)
            IN  (n.node = "Disconnect" /\ w >= CmrBits) =>
                  /\ DiscLeft(i) \/ DiscRight(i) \/ DiscDropping(i)
                        \/ Completed(e)
                  /\ DiscLeft(i) =>
                        /\ Len(read) > e.rdepth
                        /\ IsFrame(read[e.rdepth + 1], e.nfs, w)
                        /\ \A j \in 1..CmrBits :
                              data[e.nfs + j] = CmrBit(tn.index, j)
                        /\ \A j \in 1..(w - CmrBits) :
                              data[e.nfs + CmrBits + j] =
                                 e.data[read[e.rdepth].start + e.rcur + j]
                        /\ e.rdepth > 0 =>
                              read[e.rdepth].cursor = e.rcur
                        /\ Len(write) > e.wdepth
                        /\ IsFrame(write[e.wdepth + 1], e.nfs + w, out)
                        /\ HasInner(i) =>
                              /\ Inner(i).index = n.index - n.s
                              /\ Inner(i).rdepth = e.rdepth + 1
                              /\ Inner(i).rcur = 0
                  /\ DiscRight(i) =>
                        /\ Len(read) > e.rdepth + 1
                        /\ IsFrame(read[e.rdepth + 1], e.nfs, w)
                        /\ IsFrame(read[e.rdepth + 2], e.nfs + w, out)
                        /\ next_frame_start >= e.nfs + w + out
                        /\ HasInner(i) => Inner(i).index = n.index - n.t
                  /\ DiscDropping(i) =>
                        /\ Len(read) = e.rdepth + 1
                        /\ IsFrame(read[e.rdepth + 1], e.nfs, w)
                        /\ next_frame_start = e.nfs + w
                  /\ Completed(e) =>
                        /\ Len(read) = e.rdepth
                        /\ Len(write) = e.wdepth
                        /\ next_frame_start = e.nfs

C16_Witness ==
    /\ fault = NoFault
    /\ \E i \in 1..Len(open) :
          /\ NodeOf(open[i]).node = "Disconnect"
          /\ DiscLeft(i)
          /\ HasInner(i)
          /\ Completed(Inner(i))
          /\ read[open[i].rdepth + 1].len > CmrBits
          /\ data[open[i].nfs + CmrBits + 1] = 1

(* the frames allocated by input and by the setup of exec *)
HasInput == inp # NoValue
InputWidth == IF HasInput THEN value_len(inp) ELSE 0
OutputWidth == bit_width(Root.target_ty)
InputId == IF HasInput THEN 1 ELSE 0
OutputId == IF OutputWidth > 0 THEN InputId + 1 ELSE 0

(* C17: when the main loop of a well-typed program has been left normally, *)
(* every frame allocated during the run except the output frame has been   *)
(* moved once and dropped once, the read stack holds the input frame or    *)
(* nothing, the write stack holds the output frame of the setup or, for a  *)
(* target of width 0, nothing, and the value returned is decoded from that *)
(* output frame.                                                           *)
C17_FramesBalanced ==
    (WellTyped(program) /\ pc \in {"complete", "done"}) =>
        /\ rid = IF HasInput THEN <<InputId>> ELSE <<>>
        /\ Len(read) = Len(rid)
        /\ HasInput => IsFrame(read[1], 0, InputWidth)
        /\ wid = IF OutputWidth > 0 THEN <<OutputId>> ELSE <<>>
        /\ Len(write) = Len(wid)
        /\ OutputWidth > 0 => IsFrame(write[1], InputWidth, OutputWidth)
        /\ Len(life) = allocs
        /\ \A k \in 1..Len(life) :
              IF k = InputId THEN life[k] = [moved |-> 1, dropped |-> 0]
              ELSE IF k = OutputId
                   THEN life[k] = [moved |-> 0, dropped |-> 0]
                   ELSE life[k] = [moved |-> 1, dropped |-> 1]
        /\ (pc = "done" /\ OutputWidth > 0) =>
              result = from_bits_and_type(to_frame_data(write[1], data),
                                          Root.target_ty)[2]

C17_Witness ==
    /\ WellTyped(program)
    /\ pc = "done"
    /\ HasInput
    /\ OutputWidth > 0
    /\ allocs >= 4

(* a node whose annotation has not the shape its arm destructures *)
IsCaseSource(ty) == ty[1] = "Product" /\ ty[2][1] = "Sum"
IllShaped(n) ==
    \/ n.node \in {"InjL", "InjR"} /\ n.target_ty[1] # "Sum"
    \/ n.node = "Case" /\ ~IsCaseSource(n.source_ty)

(* C18, as stated: the dispatch of InjL or InjR with a target that is not  *)
(* a Sum, or of Case with a source that is not Product(Sum(A, B), C),      *)
(* aborts the run with the structural type fault and with no other fault,  *)
(* whatever the state of the machine, an empty frame stack included.       *)
C18_TypeFaultOnly ==
    [][(pc = "dispatch" /\ IllShaped(CurNode(Mach)))
          => (pc' = "aborted" /\ fault' = "TypeFault")]_vars

(* C19, as stated: an allocation that would take next_frame_start beyond  *)
(* the capacity of the arena, 8 * data.len() bits, aborts in new_frame, so *)
(* that next_frame_start is at most the capacity in every reachable state. *)
C19_AllocationWithinArena == next_frame_start <= Capacity(Mach)

(* the steps of Drop: its dispatch, and the seek-back that ends it *)
DropStep ==
    pc = "dispatch" /\ CurNode(Mach).node = "Drop" /\ fault' = NoFault
DropWidth(n) == bit_width(n.source_ty[2])
IsDrop(n) == n.node = "Drop" /\ n.source_ty[1] = "Product"
MovesTopCursor(stack, stack2, by) ==
    /\ Len(stack2) = Len(stack)
    /\ stack # <<>>
    /\ stack2 = [stack EXCEPT ![Len(stack)].cursor = @ + by]

(* C20, as stated: for Drop(child) with source Product(A, B) the cursor of *)
(* the read frame that was active at the dispatch is |A| ahead of its      *)
(* value at the dispatch during the whole run of the child's subterm, and  *)
(* equal to that value once Back(|A|) has run.                             *)
C20_AheadByExactlyA ==
    fault = NoFault =>
        \A i \in 1..Len(open) :
            LET e == open[i]
                n == NodeOf(e)
            IN  IsDrop(n) =>
                  /\ Pending(i) >= 1 =>
                        /\ Len(read) >= e.rdepth
                        /\ read[e.rdepth].cursor = e.rcur + DropWidth(n)
                  /\ Completed(e) => Cursor(read) = e.rcur

(* the same per state, with the cursor at least |A| ahead inside the child *)
DropCursor ==
    fault = NoFault =>
        \A i \in 1..Len(open) :
            LET e == open[i]
                n == NodeOf(e)
            IN  IsDrop(n) =>
                  /\ Pending(i) >= 1 =>
                        /\ Len(read) >= e.rdepth
                        /\ read[e.rdepth].cursor >= e.rcur + DropWidth(n)
                        /\ HasInner(i) =>
                              /\ Inner(i).index = n.index - n.t
                              /\ Inner(i).rdepth = e.rdepth
                              /\ Inner(i).rcur = e.rcur + DropWidth(n)
                              /\ Completed(Inner(i)) =>
                                    /\ Len(read) = e.rdepth
                                    /\ Cursor(read) = e.rcur + DropWidth(n)
                  /\ Completed(e) =>
                        /\ Cursor(read) = e.rcur
                        /\ Len(read) = e.rdepth
                        /\ Len(write) = e.wdepth

(* C20, amended: for Drop(child) with source Product(A, B) the cursor of   *)
(* the read frame that was active at the dispatch is |A| ahead of its      *)
(* value at the dispatch when the child is dispatched and when the child   *)
(* has completed, and at least |A| ahead in between; once Back(|A|) has    *)
(* run it equals the value at the dispatch.  The dispatch of Drop changes  *)
(* nothing but that cursor: the write stack, the other read frames and the *)
(* depth of both stacks stay.                                              *)
C20_AheadByAtLeastA ==
    /\ []DropCursor
    /\ [][DropStep =>
            /\ write' = write
            /\ MovesTopCursor(read, read',
                              DropWidth(CurNode(Mach)))]_vars

C20_Witness ==
    /\ fault = NoFault
    /\ \E i \in 1..Len(open) :
          /\ IsDrop(NodeOf(open[i]))
          /\ DropWidth(NodeOf(open[i])) > 0
          /\ HasInner(i)
          /\ NodeOf(Inner(i)).node = "Drop"
          /\ Completed(Inner(i))

====
